---- MODULE Spec2Model ----
(***************************************************************************)
(* parsr: the two API proxy routes (/api/search, /api/summarize) and the   *)
(* search results page (client state machine, session cache, source tabs). *)
(*                                                                         *)
(* Part I models one invocation of a proxy route handler at a time (the    *)
(* handlers share no state).  Part II models one browser session of the    *)
(* search page; Part III the search forms; Part IV what the page renders   *)
(* with the pagination control and toRomanNumeral.                         *)
(*                                                                         *)
(* Conventions.  An optional JSON field is << >> when absent and <<v>>     *)
(* when present.  A message is a tuple of strings: a literal is <<s>>, a   *)
(* template string `prefix ${x}` is <<prefix, x>>.  null is << >>.         *)
(***************************************************************************)
EXTENDS Integers, Sequences, FiniteSets, TLC

VARIABLES
    \* ---- Part I: a proxy route handler invocation
    pRoute,      \* "search" | "summarize": the route being invoked
    pPc,         \* "idle" | "fetching" | "done"
    pBody,       \* the incoming request body
    pCalls,      \* fetch() calls to the backend made by this invocation
    pSent,       \* the JSON body forwarded to the backend (<< >> if none)
    pOutcome,    \* what the backend call did: none, an HTTP response, a rejection
    pResp,       \* the NextResponse returned (status, error, shape, data)
    \* ---- Part II: the search page (component state, module state, network)
    mounted,           \* a SearchPage instance is mounted
    query,             \* params.query: the encoded route parameter
    results,           \* useState<SearchResponse | null>: << >> or <<data>>
    loading,           \* useState(true)
    error,             \* useState<string | null>: << >> or a message
    currentPage,       \* useState(1)
    sourceTabs,        \* useState<SearchResult[]>: sequence of sources
    activeTab,         \* useState("overview"): <<"overview">> or <<"source-", n>>
    sourceSummaries,   \* Record<number, SourceSummary | null>
    loadingSummaries,  \* Record<number, boolean>
    searchCache,       \* module-level Map<string, SearchResponse>
    searchReqs,        \* fetchResults() invocations that have not finished
    cleanupId,         \* the effect run whose cleanup is registered (0: none)
    summarizeReqs,     \* fetchSourceSummary() invocations of the mounted
                       \* instance that have not finished
    openedSources,     \* source numbers the mounted instance has opened a
                       \* tab for
    lastEvent,         \* what the last step was, when it was a cache hit, a
                       \* discarded response, a tab close or a repeated View
                       \* Summary
    \* ---- Part III: the search forms
    formOn,            \* the component whose search form is on screen
    searchQuery,       \* useState(""): the text in the form's input
    lastSubmit,        \* << >>, or <<text, hrefs>>: the text of the last
                       \* submit and the router.push calls it made
    \* ---- Part IV: rendering (the pagination control, toRomanNumeral)
    ctlTotal,          \* results.total_available the control is rendered for
    ctlPage,           \* currentPage at that render
    ctlLoading,        \* loading at that render
    ctlButtons,        \* the page-number buttons rendered, in order
    ctlPrevDisabled,   \* the Previous button's disabled attribute
    romInput,          \* the argument of the toRomanNumeral call
    romNum,            \* num
    romI,              \* i of the for loop
    romResult,         \* result, as a sequence of characters
    romPc              \* "idle" | "loop" | "done"

proxyVars == <<pRoute, pPc, pBody, pCalls, pSent, pOutcome, pResp>>

pageVars == <<mounted, query, results, loading, error, currentPage, sourceTabs,
              activeTab, sourceSummaries, loadingSummaries, searchCache,
              searchReqs, cleanupId, summarizeReqs, openedSources,
              lastEvent>>

formVars == <<formOn, searchQuery, lastSubmit>>

controlVars == <<ctlTotal, ctlPage, ctlLoading, ctlButtons, ctlPrevDisabled>>

romanVars == <<romInput, romNum, romI, romResult, romPc>>

renderVars == <<controlVars, romanVars>>

(***************************************************************************)
(* Part I.  The proxy routes.                                              *)
(***************************************************************************)

Routes == {"search", "summarize"}

Absent == << >>

\* Defaults of the destructuring in the search route.
DefaultMaxResults == 20
DefaultPage == 1
DefaultPerPage == 20

\* JavaScript truthiness of an optional string field: undefined and "" are falsy.
Truthy(f) == f # Absent /\ f[1] # ""

\* A default written `x || d`, which also replaces 0.
OrDefault_Falsy(f, d) == IF f = Absent \/ f[1] = 0 THEN d ELSE f[1]

\* `const { x = d } = body`: the default applies only when x is undefined.
OrDefault(f, d) == IF f = Absent THEN d ELSE f[1]

\* Incoming bodies.  kind "unparseable": request.json() rejects; kind "null":
\* the JSON text `null`; kind "object": a JSON object with these fields.
SearchBodies ==
    { [kind |-> "unparseable"], [kind |-> "null"] } \cup
    { [kind |-> "object", query |-> q, max_results |-> m, page |-> p, per_page |-> pp] :
        q \in {Absent, <<"">>, <<" ">>, <<"rust">>},
        m \in {Absent, <<0>>, <<5>>}, p \in {Absent, <<2>>}, pp \in {Absent, <<10>>} }

SummarizeBodies ==
    { [kind |-> "unparseable"], [kind |-> "null"] } \cup
    { [kind |-> "object", source_url |-> u, original_query |-> q] :
        u \in {Absent, <<"">>, <<"http://a">>},
        q \in {Absent, <<"">>, <<"rust">>} }

Bodies(route) == IF route = "search" THEN SearchBodies ELSE SummarizeBodies

\* Backend HTTP statuses and response body texts.
BackendStatuses == {200, 404, 503}

BackendTexts ==
    { "{\"detail\":\"overloaded\"}", "{\"detail\":\"\"}", "{}", "null",
      "\"down\"", "<html>" }

ResponseOk(status) == status >= 200 /\ status <= 299

\* JSON.parse on the body texts above: whether it parses, the kind of value,
\* and the value's `detail` property.
ParseJSON(text) ==
    CASE text = "{\"detail\":\"overloaded\"}" ->
            [parses |-> TRUE, kind |-> "object", detail |-> <<"overloaded">>]
      [] text = "{\"detail\":\"\"}" ->
            [parses |-> TRUE, kind |-> "object", detail |-> <<"">>]
      [] text = "{}" ->
            [parses |-> TRUE, kind |-> "object", detail |-> Absent]
      [] text = "null" ->
            [parses |-> TRUE, kind |-> "null", detail |-> Absent]
      [] text = "\"down\"" ->
            [parses |-> TRUE, kind |-> "string", detail |-> Absent]
      [] OTHER ->
            [parses |-> FALSE, kind |-> "none", detail |-> Absent]

\* Errors fetch() may reject with.  `reason` is what happened on the wire; code,
\* name and message are what the handler's catch block can see.  A refused
\* connection surfaces either as the socket error itself (code ECONNREFUSED) or
\* wrapped in TypeError('fetch failed') with the code on error.cause.
TransportErrors ==
    { [reason |-> "refused", code |-> "ECONNREFUSED", name |-> "Error",
       message |-> "connect ECONNREFUSED"],
      [reason |-> "refused", code |-> "", name |-> "TypeError",
       message |-> "fetch failed"],
      [reason |-> "refused", code |-> "ECONNREFUSED", name |-> "TypeError",
       message |-> "fetch failed"],
      [reason |-> "dns", code |-> "", name |-> "TypeError",
       message |-> "fetch failed"],
      [reason |-> "reset", code |-> "ECONNRESET", name |-> "Error",
       message |-> "socket hang up"] }

\* Errors raised inside the handler itself.
SyntaxErrorJSON ==
    [reason |-> "handler", code |-> "", name |-> "SyntaxError",
     message |-> "Unexpected token in JSON"]
TypeErrorNull ==
    [reason |-> "handler", code |-> "", name |-> "TypeError",
     message |-> "Cannot read properties of null"]

\* error.message.includes('fetch failed')
IncludesFetchFailed(message) == message = "fetch failed"

NoOutcome == [kind |-> "none"]
HttpOutcome(status, text) == [kind |-> "http", status |-> status, text |-> text]
FailOutcome(err) == [kind |-> "fail", err |-> err]

NoResp == [status |-> 0, error |-> Absent, shape |-> "none", data |-> ""]

\* NextResponse.json({ error }, { status: 400 })
ValidationResponse(msg) ==
    [status |-> 400, error |-> msg, shape |-> "validation", data |-> ""]

\* NextResponse.json({ error, fastApiUrl, timestamp }, { status })
RelayResponse(status, msg) ==
    [status |-> status, error |-> msg, shape |-> "relay", data |-> ""]

\* NextResponse.json(data)
DataResponse(text) ==
    [status |-> 200, error |-> Absent, shape |-> "data", data |-> text]

GenericMessage(route) ==
    IF route = "search" THEN <<"Failed to fetch search results">>
    ELSE <<"Internal server error">>

CannotConnectMessage ==
    <<"Cannot connect to FastAPI backend. Please ensure it is running.">>
NetworkErrorMessage == <<"Network error connecting to backend">>

\* A mis-typed error code in the first test of the catch block.
ClassifyError_WrongCode(route, err) ==
    IF err.code = "ENOTFOUND" THEN CannotConnectMessage
    ELSE IF err.name = "TypeError" /\ IncludesFetchFailed(err.message)
         THEN NetworkErrorMessage
         ELSE GenericMessage(route)

\* The two tests of the catch block in the other order.
ClassifyError_TypeFirst(route, err) ==
    IF err.name = "TypeError" /\ IncludesFetchFailed(err.message)
    THEN NetworkErrorMessage
    ELSE IF err.code = "ECONNREFUSED" THEN CannotConnectMessage
         ELSE GenericMessage(route)

\* The classification in the catch block of either route.
ClassifyError(route, err) ==
    IF err.code = "ECONNREFUSED" THEN CannotConnectMessage
    ELSE IF err.name = "TypeError" /\ IncludesFetchFailed(err.message)
         THEN NetworkErrorMessage
         ELSE GenericMessage(route)

\* The catch block: NextResponse.json({ error, debug, originalError }, { status: 500 })
CatchResponse(route, err) ==
    [status |-> 500, error |-> ClassifyError(route, err), shape |-> "transport",
     data |-> ""]

\* `if (!query)` in the search route; `if (!source_url || !original_query)` in
\* the summarize route.  TRUE when the request passes the check.
RequestValid_OnlyUndefined(route, body) ==
    IF route = "search" THEN body.query # Absent
    ELSE body.source_url # Absent /\ body.original_query # Absent

RequestValid_And(route, body) ==
    IF route = "search" THEN Truthy(body.query)
    ELSE Truthy(body.source_url) \/ Truthy(body.original_query)

RequestValid(route, body) ==
    IF route = "search" THEN Truthy(body.query)
    ELSE Truthy(body.source_url) /\ Truthy(body.original_query)

ValidationMessage(route) ==
    IF route = "search" THEN <<"Query is required">>
    ELSE <<"source_url and original_query are required">>

\* JSON.stringify({...}) passed to fetch(); the string fields stay optional
\* values (JSON.stringify drops an undefined field).
ForwardedBody(route, body) ==
    IF route = "search"
    THEN [query |-> body.query,
          max_results |-> OrDefault(body.max_results, DefaultMaxResults),
          page |-> OrDefault(body.page, DefaultPage),
          per_page |-> OrDefault(body.per_page, DefaultPerPage)]
    ELSE [source_url |-> body.source_url,
          original_query |-> body.original_query]

\* Search route, `if (!response.ok)`: response.json().catch(() => ({})), then
\* errorData.detail || `FastAPI responded with status: ${response.status}`.
\* Reading .detail of null throws a TypeError, which lands in the catch block.
SearchNotOk(status, text) ==
    LET parsed == ParseJSON(text)
        errorData == IF parsed.parses THEN parsed
                     ELSE [parses |-> TRUE, kind |-> "object", detail |-> Absent]
    IN  IF errorData.kind = "null"
        THEN CatchResponse("search", TypeErrorNull)
        ELSE RelayResponse(status,
                 IF Truthy(errorData.detail) THEN errorData.detail
                 ELSE <<"FastAPI responded with status: ", ToString(status)>>)

\* A summarize route that relayed the declared detail the way the search route does.
SummarizeNotOk_Detail(status, text) ==
    LET parsed == ParseJSON(text)
    IN  RelayResponse(status,
            IF parsed.parses /\ Truthy(parsed.detail) THEN parsed.detail
            ELSE <<"FastAPI responded with status: ", ToString(status)>>)

\* Summarize route, `if (!response.ok)`: `Backend error: ${await response.text()}`.
SummarizeNotOk(status, text) ==
    RelayResponse(status, <<"Backend error: ", text>>)

\* A relay whose response.json() rejection escapes the handler.
RelayData_NoCatch(route, text) ==
    IF ParseJSON(text).parses THEN DataResponse(text) ELSE NoResp

\* `const data = await response.json(); return NextResponse.json(data)`.
RelayData(route, text) ==
    IF ParseJSON(text).parses THEN DataResponse(text)
    ELSE CatchResponse(route, SyntaxErrorJSON)

\* The handler from the point where fetch() settles to its return.
Respond(route, outcome) ==
    IF outcome.kind = "fail" THEN CatchResponse(route, outcome.err)
    ELSE IF ~ResponseOk(outcome.status)
         THEN IF route = "search" THEN SearchNotOk(outcome.status, outcome.text)
              ELSE SummarizeNotOk(outcome.status, outcome.text)
         ELSE RelayData(route, outcome.text)

\* A handler that calls fetch() again after a rejection.
CallsAfterOutcome_Retry(calls, outcome) ==
    IF outcome.kind = "fail" THEN calls + 1 ELSE calls

\* fetch() calls made once the first one has settled: the handlers make none.
CallsAfterOutcome(calls, outcome) == calls

ProxyInit ==
    /\ pRoute = "search"
    /\ pPc = "idle"
    /\ pBody = [kind |-> "none"]
    /\ pCalls = 0
    /\ pSent = Absent
    /\ pOutcome = NoOutcome
    /\ pResp = NoResp

\* POST: from the request to the fetch() call, or to an early return.
ProxyReceive(route, body) ==
    /\ pPc # "fetching"
    /\ pRoute' = route
    /\ pBody' = body
    /\ pOutcome' = NoOutcome
    /\ IF body.kind = "unparseable"
       THEN /\ pResp' = CatchResponse(route, SyntaxErrorJSON)
            /\ pPc' = "done" /\ pCalls' = 0 /\ pSent' = Absent
       ELSE IF body.kind = "null"
       THEN /\ pResp' = CatchResponse(route, TypeErrorNull)
            /\ pPc' = "done" /\ pCalls' = 0 /\ pSent' = Absent
       ELSE IF ~RequestValid(route, body)
       THEN /\ pResp' = ValidationResponse(ValidationMessage(route))
            /\ pPc' = "done" /\ pCalls' = 0 /\ pSent' = Absent
       ELSE /\ pResp' = NoResp
            /\ pPc' = "fetching" /\ pCalls' = 1
            /\ pSent' = <<ForwardedBody(route, body)>>
    /\ UNCHANGED <<pageVars, formVars, renderVars>>

\* fetch() resolves with a response of the backend.
BackendResponds(status, text) ==
    /\ pPc = "fetching"
    /\ pOutcome' = HttpOutcome(status, text)
    /\ pResp' = Respond(pRoute, HttpOutcome(status, text))
    /\ pCalls' = CallsAfterOutcome(pCalls, HttpOutcome(status, text))
    /\ pPc' = "done"
    /\ UNCHANGED <<pRoute, pBody, pSent, pageVars, formVars, renderVars>>

\* fetch() rejects.
BackendFails(err) ==
    /\ pPc = "fetching"
    /\ pOutcome' = FailOutcome(err)
    /\ pResp' = Respond(pRoute, FailOutcome(err))
    /\ pCalls' = CallsAfterOutcome(pCalls, FailOutcome(err))
    /\ pPc' = "done"
    /\ UNCHANGED <<pRoute, pBody, pSent, pageVars, formVars, renderVars>>

ProxyNext ==
    \/ \E route \in Routes : \E body \in Bodies(route) : ProxyReceive(route, body)
    \/ \E status \in BackendStatuses, text \in BackendTexts :
          BackendResponds(status, text)
    \/ \E err \in TransportErrors : BackendFails(err)


(***************************************************************************)
(* Part II.  The search results page.                                      *)
(***************************************************************************)

\* Bounds of the model.
MaxPage == 3             \* currentPage is not driven beyond this
MaxInFlight == 2         \* /api/search calls in flight at once
MaxSummarizeInFlight == 2  \* /api/summarize calls in flight at once per source

\* source_number of the sources a search response lists.
SourceNumbers == {1, 2}

\* per_page (and max_results) sent by the page.
PerPage == 20

\* Route parameters a session visits, and decodeURIComponent on them.
Params == {"rust", "%72ust", "%20"}

decodeURIComponent(param) ==
    CASE param = "rust" -> "rust"
      [] param = "%72ust" -> "rust"
      [] param = "%20" -> " "

\* What the backend has for a query.
TotalAvailable(q) == IF q = "rust" THEN 45 ELSE 15

\* The SearchResponse relayed for a request: query and paging echoed back.
SearchResponse(q, page) ==
    [query |-> q, current_page |-> page, per_page |-> PerPage,
     total_available |-> TotalAvailable(q),
     has_next_page |-> page * PerPage < TotalAvailable(q)]

\* results.sources of a response: source_number SourceNumbers; the query
\* stands for the link and title of the source.
Source(data, n) == [source_number |-> n, link |-> <<data.query, n>>]

\* Messages the page can put in `error`.
ApiErrors == { <<"overloaded">> }
FetchRejected == <<"Failed to fetch">>
BadJSON == <<"Unexpected token in JSON">>

\* What /api/search answers: ok with data, not ok with { error }, or a body
\* that is not JSON.
ApiPayloads ==
    { [kind |-> "ok"], [kind |-> "bad"] } \cup
    { [kind |-> "err", error |-> m] : m \in ApiErrors }

Overview == <<"overview">>
SourceTab(n) == <<"source-", n>>

\* The branch of the render: loading ? ... : error ? ... : results ? ... : ...
View ==
    IF ~mounted THEN "none"
    ELSE IF loading THEN "loading"
    ELSE IF error # Absent /\ error # <<"">> THEN "error"
    ELSE IF results # Absent THEN "success"
    ELSE "empty"

\* The part of the state the search effect reads and writes.
EffectState ==
    [results |-> results, loading |-> loading, error |-> error,
     reqs |-> searchReqs, cleanupId |-> cleanupId, fits |-> TRUE]

\* An effect cleanup that forgets to raise the flag.
Cleanup_NoAbort(es) == [es EXCEPT !.cleanupId = 0]

\* The cleanup `() => { aborted = true }` of the effect run that registered
\* one.  A run whose flag is raised reads neither its decodedQuery nor its
\* page again (every statement after the awaits is under the flag), so of
\* such a run only the call it made (its page) and where it stands are kept.
Cleanup(es) ==
    [es EXCEPT !.reqs = { IF r.id = es.cleanupId
                          THEN [id |-> r.id, page |-> r.page, aborted |-> TRUE,
                                phase |-> r.phase]
                          ELSE r : r \in es.reqs },
               !.cleanupId = 0]

\* An identifier for a new call: the least one no call in flight carries.
FreeId(reqs) ==
    CHOOSE i \in 1..(Cardinality(reqs) + 1) : \A r \in reqs : r.id # i

\* fetchResults() up to `await fetch('/api/search', ...)`: setLoading(true),
\* setError(null), the call, and the cleanup the effect returns.  `fits`
\* records that the model's bound on calls in flight was respected.
FetchResults(es, decodedQuery, page) ==
    IF ~es.fits \/ Cardinality(es.reqs) >= MaxInFlight
    THEN [es EXCEPT !.fits = FALSE]
    ELSE [es EXCEPT !.loading = TRUE, !.error = Absent,
                    !.reqs = @ \cup { [id |-> FreeId(es.reqs), q |-> decodedQuery,
                                       page |-> page, aborted |-> FALSE,
                                       phase |-> "fetch"] },
                    !.cleanupId = FreeId(es.reqs)]

\* An effect that never looks into the cache.
SearchEffect_NoCache(es, param, page) ==
    FetchResults(es, decodeURIComponent(param), page)

\* An effect that uses the cache for page 1 only.
SearchEffect_FirstPageOnly(es, param, page) ==
    LET decodedQuery == decodeURIComponent(param)
    IN  IF decodedQuery \in DOMAIN searchCache /\ page = 1
        THEN [es EXCEPT !.results = <<searchCache[decodedQuery]>>,
                        !.loading = FALSE, !.error = Absent]
        ELSE FetchResults(es, decodedQuery, page)

\* The body of useEffect(..., [query, currentPage]): the cache lookup, and on
\* a miss fetchResults().  The entries are SearchResponse objects, which are
\* truthy, so `if (cachedResult)` is the test that the key has an entry.
SearchEffect(es, param, page) ==
    LET decodedQuery == decodeURIComponent(param)
    IN  IF decodedQuery \in DOMAIN searchCache
        THEN [es EXCEPT !.results = <<searchCache[decodedQuery]>>,
                        !.loading = FALSE, !.error = Absent]
        ELSE FetchResults(es, decodedQuery, page)

\* What entering the page at param, or changing to it, is recorded as in
\* lastEvent.
EffectEvent(param) ==
    IF decodeURIComponent(param) \in DOMAIN searchCache THEN "cacheHit"
    ELSE "other"

\* A dependency changed: the previous run's cleanup, then the effect again.
RerunEffect(es, param, page) == SearchEffect(Cleanup(es), param, page)

\* Writes an effect state back.
SetEffectState(es) ==
    /\ es.fits
    /\ results' = es.results
    /\ loading' = es.loading
    /\ error' = es.error
    /\ searchReqs' = es.reqs
    /\ cleanupId' = es.cleanupId

EmptyRecord == [n \in {} |-> Absent]

PageInit ==
    /\ mounted = FALSE
    /\ query = "rust"
    /\ results = Absent
    /\ loading = TRUE
    /\ error = Absent
    /\ currentPage = 1
    /\ sourceTabs = << >>
    /\ activeTab = Overview
    /\ sourceSummaries = EmptyRecord
    /\ loadingSummaries = EmptyRecord
    /\ searchCache = EmptyRecord
    /\ searchReqs = {}
    /\ cleanupId = 0
    /\ summarizeReqs = {}
    /\ openedSources = {}
    /\ lastEvent = "other"

\* The page is entered at /search/<param>: the component mounts with its
\* initial state and both effects run (the second sets currentPage to 1, which
\* it already is).
Mount(param) ==
    /\ ~mounted
    /\ mounted' = TRUE
    /\ query' = param
    /\ SetEffectState(SearchEffect(EffectState, param, 1))
    /\ lastEvent' = EffectEvent(param)
    /\ UNCHANGED <<currentPage, sourceTabs, activeTab, sourceSummaries,
                   loadingSummaries, searchCache, summarizeReqs, openedSources,
                   proxyVars, formVars, renderVars>>

\* The page is left: the effect's cleanup runs and the component state is
\* gone (a later Mount starts from the initial state); searchCache stays.
\* A summarize call still in flight can only set state of the dead instance,
\* which does nothing: it is dropped here.
Unmount ==
    /\ mounted
    /\ mounted' = FALSE
    /\ searchReqs' = Cleanup(EffectState).reqs
    /\ cleanupId' = 0
    /\ results' = Absent
    /\ loading' = TRUE
    /\ error' = Absent
    /\ currentPage' = 1
    /\ sourceTabs' = << >>
    /\ activeTab' = Overview
    /\ sourceSummaries' = EmptyRecord
    /\ loadingSummaries' = EmptyRecord
    /\ summarizeReqs' = {}
    /\ openedSources' = {}
    /\ lastEvent' = "other"
    /\ UNCHANGED <<query, searchCache,
                   proxyVars, formVars, renderVars>>

\* params.query changes under the mounted component: the effect on
\* [query, currentPage] is cleaned up and run again with the page number of
\* this render, the effect on [query] calls setCurrentPage(1), and if that
\* changed currentPage the first effect is cleaned up and run once more.
Navigate(param) ==
    /\ mounted
    /\ param # query
    /\ query' = param
    /\ LET es1 == RerunEffect(EffectState, param, currentPage)
           es2 == IF currentPage # 1 THEN RerunEffect(es1, param, 1) ELSE es1
       IN  SetEffectState(es2)
    /\ currentPage' = 1
    /\ lastEvent' = EffectEvent(param)
    /\ UNCHANGED <<mounted, sourceTabs, activeTab, sourceSummaries,
                   loadingSummaries, searchCache, summarizeReqs, openedSources,
                   proxyVars, formVars, renderVars>>

\* `await fetch('/api/search')` resolves with a response.  `if (aborted)
\* return` ends a superseded run; otherwise the run awaits response.json().
SearchFetchResolves(r) ==
    /\ r \in searchReqs
    /\ r.phase = "fetch"
    /\ searchReqs' =
          IF r.aborted THEN searchReqs \ {r}
          ELSE (searchReqs \ {r}) \cup
               { [r EXCEPT !.phase = "json"] }
    /\ lastEvent' = IF r.aborted THEN "staleResponse" ELSE "other"
    /\ UNCHANGED <<mounted, query, results, loading, error, currentPage,
                   sourceTabs, activeTab, sourceSummaries, loadingSummaries,
                   searchCache, cleanupId, summarizeReqs, openedSources,
                   proxyVars, formVars, renderVars>>

\* A rejection handled without the finally block.
SearchFetchRejects_NoFinally(r) ==
    /\ r \in searchReqs
    /\ r.phase = "fetch"
    /\ searchReqs' = searchReqs \ {r}
    /\ error' = IF ~r.aborted THEN FetchRejected ELSE error
    /\ loading' = loading
    /\ lastEvent' = IF r.aborted THEN "staleResponse" ELSE "other"
    /\ UNCHANGED <<mounted, query, results, currentPage, sourceTabs, activeTab,
                   sourceSummaries, loadingSummaries, searchCache, cleanupId, summarizeReqs, openedSources,
                   proxyVars, formVars, renderVars>>

\* `await fetch('/api/search')` rejects: the catch and finally blocks.
SearchFetchRejects(r) ==
    /\ r \in searchReqs
    /\ r.phase = "fetch"
    /\ searchReqs' = searchReqs \ {r}
    /\ error' = IF ~r.aborted THEN FetchRejected ELSE error
    /\ loading' = IF ~r.aborted THEN FALSE ELSE loading
    /\ lastEvent' = IF r.aborted THEN "staleResponse" ELSE "other"
    /\ UNCHANGED <<mounted, query, results, currentPage, sourceTabs, activeTab,
                   sourceSummaries, loadingSummaries, searchCache, cleanupId, summarizeReqs, openedSources,
                   proxyVars, formVars, renderVars>>

\* A Map.set that forgets the other entries.
CacheSet_Forget(cache, key, data) == [k \in {key} |-> data]

\* searchCache.set(key, data)
CacheSet(cache, key, data) ==
    [k \in DOMAIN cache \cup {key} |-> IF k = key THEN data ELSE cache[k]]

\* `await response.json()` settles with the response's payload: on an ok
\* response setResults and searchCache.set; on a non-ok one `throw new
\* Error(errorData.error)`; when the body is not JSON the rejection; then
\* catch and finally, all under `if (!aborted)`.
SearchBodySettles(r, payload) ==
    /\ r \in searchReqs
    /\ r.phase = "json"
    /\ searchReqs' = searchReqs \ {r}
    /\ IF r.aborted
       THEN UNCHANGED <<results, searchCache, error, loading>>
       ELSE /\ loading' = FALSE
            /\ IF payload.kind = "ok"
               THEN /\ results' = <<SearchResponse(r.q, r.page)>>
                    /\ searchCache' =
                          CacheSet(searchCache, r.q, SearchResponse(r.q, r.page))
                    /\ UNCHANGED error
               ELSE /\ error' = IF payload.kind = "err" THEN payload.error
                                ELSE BadJSON
                    /\ UNCHANGED <<results, searchCache>>
    /\ lastEvent' = IF r.aborted THEN "staleResponse" ELSE "other"
    /\ UNCHANGED <<mounted, query, currentPage, sourceTabs, activeTab,
                   sourceSummaries, loadingSummaries, cleanupId,
                   summarizeReqs, openedSources,
                   proxyVars, formVars, renderVars>>

\* Math.ceil(results.total_available / results.per_page)
TotalPages(data) == (data.total_available + data.per_page - 1) \div data.per_page

Max2(a, b) == IF a >= b THEN a ELSE b
Min2(a, b) == IF a <= b THEN a ELSE b

\* The page numbers the pagination control renders as buttons.
PageWindow(data, page) ==
    LET totalPages == TotalPages(data)
        start0 == Max2(1, page - 2)
        endPage == Min2(totalPages, start0 + 4)
        startPage == IF endPage - start0 < 4 THEN Max2(1, endPage - 4) ELSE start0
    IN  { startPage + i : i \in 0..(Min2(5, totalPages) - 1) } \cap
        { k \in 1..(startPage + 4) : k <= totalPages }

\* `results.total_available > results.per_page`: the controls are rendered.
Paginated ==
    /\ View = "success"
    /\ results[1].total_available > results[1].per_page

\* setCurrentPage(p) from a pagination button; a changed currentPage re-runs
\* the search effect for the same query.
ChangePage(p) ==
    /\ currentPage' = p
    /\ IF p # currentPage
       THEN SetEffectState(RerunEffect(EffectState, query, p))
       ELSE UNCHANGED <<results, loading, error, searchReqs, cleanupId>>
    /\ lastEvent' = "other"
    /\ UNCHANGED <<mounted, query, sourceTabs, activeTab, sourceSummaries,
                   loadingSummaries, searchCache, summarizeReqs, openedSources,
                   proxyVars, formVars, renderVars>>

\* Texts typed into a search form.
Texts == {"", " ", "rust", " rust", "r t", "a&b"}

\* String.prototype.trim on them.
Trim(text) ==
    CASE text = "" -> ""
      [] text = " " -> ""
      [] text = "rust" -> "rust"
      [] text = " rust" -> "rust"
      [] text = "r t" -> "r t"
      [] text = "a&b" -> "a&b"

\* encodeURIComponent on them.
encodeURIComponent(text) ==
    CASE text = "" -> ""
      [] text = " " -> "%20"
      [] text = "rust" -> "rust"
      [] text = " rust" -> "%20rust"
      [] text = "r t" -> "r%20t"
      [] text = "a&b" -> "a%26b"

\* The components with a search form: the landing page, the search page and
\* the earlier search page.
Components == {"LandingPage", "SearchPage", "SearchPageOld"}

\* What precedes the encoded text in the href a component pushes.
HrefPrefix(component) ==
    IF component = "SearchPage" THEN "/search/" ELSE "search/"

\* A submit handler that tests the text without trimming it.
handleSubmit_NoTrim(component, text) ==
    [hrefs |-> IF text = "" THEN << >>
               ELSE << <<HrefPrefix(component), encodeURIComponent(text)>> >>,
     setsPage |-> text # "" /\ component = "SearchPage"]

\* handleSubmit of a component on the text of its input: the router.push
\* calls it makes, and whether it calls setCurrentPage(1).
handleSubmit(component, text) ==
    [hrefs |-> IF Trim(text) = "" THEN << >>
               ELSE << <<HrefPrefix(component), encodeURIComponent(text)>> >>,
     setsPage |-> Trim(text) # "" /\ component = "SearchPage"]

\* The search page's form is submitted with text in its input: what
\* handleSubmit does to the page (setCurrentPage(1)); the route change that
\* router.push asks for arrives as a Navigate or as an Unmount and a Mount.
SubmitSearch(text) ==
    /\ mounted
    /\ IF handleSubmit("SearchPage", text).setsPage
       THEN ChangePage(1)
       ELSE UNCHANGED <<pageVars, proxyVars, formVars, renderVars>>

\* Previous: disabled={currentPage <= 1 || loading}
PreviousPage ==
    /\ Paginated
    /\ currentPage > 1
    /\ ChangePage(currentPage - 1)

\* Next: disabled={!results.has_next_page || loading}
NextPage ==
    /\ Paginated
    /\ results[1].has_next_page
    /\ currentPage < MaxPage
    /\ ChangePage(currentPage + 1)

\* A page-number button: disabled={loading}
SelectPage(k) ==
    /\ Paginated
    /\ k \in PageWindow(results[1], currentPage)
    /\ k <= MaxPage
    /\ ChangePage(k)

TabNumbers == { sourceTabs[i].source_number : i \in 1..Len(sourceTabs) }

\* A guard that only looks at the stored summary.
HaveOrLoading_OnlySummary(n) ==
    n \in DOMAIN sourceSummaries /\ sourceSummaries[n] # Absent

\* `sourceSummaries[n] || loadingSummaries[n]`: a null summary is falsy.
HaveOrLoading(n) ==
    \/ n \in DOMAIN sourceSummaries /\ sourceSummaries[n] # Absent
    \/ n \in DOMAIN loadingSummaries /\ loadingSummaries[n]

\* The summarize calls in flight for source number n.
SummarizeReqsOf(n) == { r \in summarizeReqs : r.n = n }

\* prev => ({ ...prev, [n]: v })
Spread(prev, n, v) == [k \in DOMAIN prev \cup {n} |-> IF k = n THEN v ELSE prev[k]]

\* View Summary on source n of the displayed results (the button is in the
\* overview tab's content): openSourceTab, and through it fetchSourceSummary up
\* to its await.
OpenSourceTab(n) ==
    /\ View = "success"
    /\ activeTab = Overview
    /\ n \in SourceNumbers
    /\ activeTab' = SourceTab(n)
    /\ IF n \in TabNumbers
       THEN UNCHANGED <<sourceTabs, loadingSummaries, summarizeReqs>>
       ELSE /\ sourceTabs' = Append(sourceTabs, Source(results[1], n))
            /\ IF HaveOrLoading(n)
               THEN UNCHANGED <<loadingSummaries, summarizeReqs>>
               ELSE /\ Cardinality(SummarizeReqsOf(n)) < MaxSummarizeInFlight
                    /\ loadingSummaries' = Spread(loadingSummaries, n, TRUE)
                    /\ summarizeReqs' = summarizeReqs \cup
                          { [n |-> n, id |-> FreeId(SummarizeReqsOf(n)),
                             source_url |-> Source(results[1], n).link,
                             original_query |-> decodeURIComponent(query)] }
    /\ openedSources' = openedSources \cup {n}
    /\ lastEvent' = IF n \in TabNumbers THEN "openAgain"
                    ELSE IF n \in openedSources THEN "reopenClosed"
                    ELSE "other"
    /\ UNCHANGED <<mounted, query, results, loading, error, currentPage,
                   sourceSummaries, searchCache, searchReqs, cleanupId,
                   proxyVars, formVars, renderVars>>

\* A close button that always falls back to the overview tab.
CloseTab_AlwaysOverview(n) ==
    /\ View = "success"
    /\ n \in TabNumbers
    /\ sourceTabs' = SelectSeq(sourceTabs, LAMBDA tab : tab.source_number # n)
    /\ activeTab' = Overview
    /\ lastEvent' = "close"
    /\ UNCHANGED <<mounted, query, results, loading, error, currentPage,
                   sourceSummaries, loadingSummaries, searchCache, searchReqs,
                   cleanupId, summarizeReqs, openedSources,
                   proxyVars, formVars, renderVars>>

\* A close button that leaves activeTab on the tab it closed.
CloseTab_KeepActive(n) ==
    /\ View = "success"
    /\ n \in TabNumbers
    /\ sourceTabs' = SelectSeq(sourceTabs, LAMBDA tab : tab.source_number # n)
    /\ lastEvent' = "close"
    /\ UNCHANGED <<mounted, query, results, loading, error, currentPage,
                   activeTab, sourceSummaries, loadingSummaries, searchCache,
                   searchReqs, cleanupId, summarizeReqs, openedSources,
                   proxyVars, formVars, renderVars>>

\* The close button of a source tab.
CloseTab(n) ==
    /\ View = "success"
    /\ n \in TabNumbers
    /\ sourceTabs' = SelectSeq(sourceTabs, LAMBDA tab : tab.source_number # n)
    /\ activeTab' = IF activeTab = SourceTab(n) THEN Overview ELSE activeTab
    /\ lastEvent' = "close"
    /\ UNCHANGED <<mounted, query, results, loading, error, currentPage,
                   sourceSummaries, loadingSummaries, searchCache, searchReqs,
                   cleanupId, summarizeReqs, openedSources,
                   proxyVars, formVars, renderVars>>

\* A click on a tab header: setActiveTab.
SelectTab(tab) ==
    /\ View = "success"
    /\ tab \in {Overview} \cup { SourceTab(n) : n \in TabNumbers }
    /\ tab # activeTab
    /\ activeTab' = tab
    /\ lastEvent' = "other"
    /\ UNCHANGED <<mounted, query, results, loading, error, currentPage,
                   sourceTabs, sourceSummaries, loadingSummaries, searchCache,
                   searchReqs, cleanupId, summarizeReqs, openedSources,
                   proxyVars, formVars, renderVars>>

\* A fetchSourceSummary whose catch block stores nothing.
SummarizeSettles_NoNull(r, ok) ==
    /\ r \in summarizeReqs
    /\ summarizeReqs' = summarizeReqs \ {r}
    /\ sourceSummaries' =
            IF ok THEN Spread(sourceSummaries, r.n,
                              <<[source_url |-> r.source_url,
                                 original_query |-> r.original_query]>>)
            ELSE sourceSummaries
    /\ loadingSummaries' = Spread(loadingSummaries, r.n, FALSE)
    /\ lastEvent' = "other"
    /\ UNCHANGED <<mounted, query, results, loading, error, currentPage,
                   sourceTabs, activeTab, searchCache, searchReqs, cleanupId, openedSources,
                   proxyVars, formVars, renderVars>>

\* fetch('/api/summarize') settles: a summary on an ok JSON response, null on
\* a non-ok response or a rejection; the finally block clears the loading
\* flag.
SummarizeSettles(r, ok) ==
    /\ r \in summarizeReqs
    /\ summarizeReqs' = summarizeReqs \ {r}
    /\ sourceSummaries' = Spread(sourceSummaries, r.n,
            IF ok THEN <<[source_url |-> r.source_url,
                          original_query |-> r.original_query]>>
            ELSE Absent)
    /\ loadingSummaries' = Spread(loadingSummaries, r.n, FALSE)
    /\ lastEvent' = "other"
    /\ UNCHANGED <<mounted, query, results, loading, error, currentPage,
                   sourceTabs, activeTab, searchCache, searchReqs, cleanupId, openedSources,
                   proxyVars, formVars, renderVars>>

PageNext ==
    \/ \E param \in Params : Mount(param)
    \/ Unmount
    \/ \E param \in Params : Navigate(param)
    \/ \E r \in searchReqs : SearchFetchResolves(r)
    \/ \E r \in searchReqs : SearchFetchRejects(r)
    \/ \E r \in searchReqs, payload \in ApiPayloads : SearchBodySettles(r, payload)
    \/ PreviousPage
    \/ NextPage
    \/ \E k \in 1..MaxPage : SelectPage(k)
    \/ \E text \in Texts : SubmitSearch(text)
    \/ \E n \in SourceNumbers : OpenSourceTab(n)
    \/ \E n \in SourceNumbers : CloseTab(n)
    \/ \E tab \in {Overview} \cup { SourceTab(n) : n \in SourceNumbers } : SelectTab(tab)
    \/ \E r \in summarizeReqs, ok \in BOOLEAN : SummarizeSettles(r, ok)


(***************************************************************************)
(* Part IV.  Rendering: the pagination control and toRomanNumeral.         *)
(***************************************************************************)

\* total_available of the results the pagination control is rendered for
\* (per_page is PerPage): from 2 to 9 pages, full and partly filled.
TotalsAvailable == {21, 40, 45, 80, 81, 100, 119, 120, 121, 180}

ControlData(total) == [total_available |-> total, per_page |-> PerPage]

\* A window that is not moved back when it runs past the last page.
PageButtons_NoShift(data, page) ==
    LET totalPages == TotalPages(data)
        startPage == Max2(1, page - 2)
        pageNums == [i \in 1..Min2(5, totalPages) |-> startPage + (i - 1)]
    IN  SelectSeq(pageNums, LAMBDA pageNum : pageNum <= totalPages)

\* Array.from({ length: Math.min(5, totalPages) }, (_, i) => ...): the page
\* numbers of the buttons rendered, in order; an index whose pageNum exceeds
\* totalPages renders nothing.
PageButtons(data, page) ==
    LET totalPages == TotalPages(data)
        start0 == Max2(1, page - 2)
        endPage == Min2(totalPages, start0 + 4)
        startPage == IF endPage - start0 < 4 THEN Max2(1, endPage - 4) ELSE start0
        pageNums == [i \in 1..Min2(5, totalPages) |-> startPage + (i - 1)]
    IN  SelectSeq(pageNums, LAMBDA pageNum : pageNum <= totalPages)

\* Previous: disabled={currentPage <= 1 || loading}
PreviousDisabled(page, isLoading) == page <= 1 \/ isLoading

\* No results to paginate.
ControlIdle ==
    /\ ctlTotal = 0
    /\ ctlPage = 1
    /\ ctlLoading = FALSE
    /\ ctlButtons = << >>
    /\ ctlPrevDisabled = TRUE

\* Results of more than one page, a current page among them, and the control
\* not yet rendered.
ControlInit ==
    /\ ctlTotal \in TotalsAvailable
    /\ ctlPage \in 1..TotalPages(ControlData(ctlTotal))
    /\ ctlLoading \in BOOLEAN
    /\ ctlButtons = << >>
    /\ ctlPrevDisabled = TRUE

\* The control as rendered for the page number page.
RenderControl(page) ==
    /\ ctlButtons' = PageButtons(ControlData(ctlTotal), page)
    /\ ctlPrevDisabled' = PreviousDisabled(page, ctlLoading)

\* `results.total_available > results.per_page && (...)`: the control is
\* rendered.
RenderPagination ==
    /\ ctlTotal > PerPage
    /\ ctlButtons = << >>
    /\ RenderControl(ctlPage)
    /\ UNCHANGED <<ctlTotal, ctlPage, ctlLoading, romanVars,
                   proxyVars, pageVars, formVars>>

\* A rendered page-number button is clicked (disabled={loading}): the control
\* is rendered again for its page.
ClickPageNumber(pageNum) ==
    /\ \E i \in 1..Len(ctlButtons) : ctlButtons[i] = pageNum
    /\ ~ctlLoading
    /\ pageNum # ctlPage
    /\ ctlPage' = pageNum
    /\ RenderControl(pageNum)
    /\ UNCHANGED <<ctlTotal, ctlLoading, romanVars,
                   proxyVars, pageVars, formVars>>

\* Previous is clicked.
ClickPrevious ==
    /\ ctlButtons # << >>
    /\ ~ctlPrevDisabled
    /\ ctlPage' = ctlPage - 1
    /\ RenderControl(ctlPage - 1)
    /\ UNCHANGED <<ctlTotal, ctlLoading, romanVars,
                   proxyVars, pageVars, formVars>>

\* The largest page number of TotalsAvailable.
MaxTotalPages == 9

ControlNext ==
    \/ RenderPagination
    \/ \E pageNum \in 1..MaxTotalPages : ClickPageNumber(pageNum)
    \/ ClickPrevious

\* Arguments toRomanNumeral is called with: two negative ones, 0, and every
\* number up to MaxRoman.
MaxRoman == 3999

RomanInputs == {-2, -1} \cup 0..MaxRoman

\* A symbols array whose entry for 4 is written the other way round.
RomanSymbols_Swapped ==
    << <<"M">>, <<"C", "M">>, <<"D">>, <<"C", "D">>, <<"C">>, <<"X", "C">>,
       <<"L">>, <<"X", "L">>, <<"X">>, <<"I", "X">>, <<"V">>, <<"V", "I">>,
       <<"I">> >>

\* values and symbols of toRomanNumeral; a symbol is its characters.
RomanValues == <<1000, 900, 500, 400, 100, 90, 50, 40, 10, 9, 5, 4, 1>>

RomanSymbols ==
    << <<"M">>, <<"C", "M">>, <<"D">>, <<"C", "D">>, <<"C">>, <<"X", "C">>,
       <<"L">>, <<"X", "L">>, <<"X">>, <<"I", "X">>, <<"V">>, <<"I", "V">>,
       <<"I">> >>

\* No call of toRomanNumeral.
RomanIdle ==
    /\ romInput = 0
    /\ romNum = 0
    /\ romI = 0
    /\ romResult = << >>
    /\ romPc = "idle"

\* toRomanNumeral(num) is entered: result = '', i = 0.
RomanInit ==
    /\ romInput \in RomanInputs
    /\ romNum = romInput
    /\ romI = 0
    /\ romResult = << >>
    /\ romPc = "loop"

\* One iteration of `while (num >= values[i])`.
RomanAppend ==
    /\ romPc = "loop"
    /\ romI < Len(RomanValues)
    /\ romNum >= RomanValues[romI + 1]
    /\ romResult' = romResult \o RomanSymbols[romI + 1]
    /\ romNum' = romNum - RomanValues[romI + 1]
    /\ UNCHANGED <<romInput, romI, romPc, controlVars,
                   proxyVars, pageVars, formVars>>

\* The while loop's test fails: i++.
RomanAdvance ==
    /\ romPc = "loop"
    /\ romI < Len(RomanValues)
    /\ romNum < RomanValues[romI + 1]
    /\ romI' = romI + 1
    /\ UNCHANGED <<romInput, romNum, romResult, romPc, controlVars,
                   proxyVars, pageVars, formVars>>

\* `i < values.length` fails: return result.
RomanReturn ==
    /\ romPc = "loop"
    /\ romI = Len(RomanValues)
    /\ romPc' = "done"
    /\ UNCHANGED <<romInput, romNum, romI, romResult, controlVars,
                   proxyVars, pageVars, formVars>>

RomanNext ==
    \/ RomanAppend
    \/ RomanAdvance
    \/ RomanReturn

RenderInit == ControlIdle /\ RomanIdle
(***************************************************************************)
(* Part III.  The search forms: the text in the input and the navigation   *)
(* a submit asks for.  What the search page's handleSubmit does to the     *)
(* page state is SubmitSearch of Part II.                                  *)
(***************************************************************************)

FormInit ==
    /\ formOn = "LandingPage"
    /\ searchQuery = ""
    /\ lastSubmit = Absent

\* A component with a search form comes on screen: its input starts empty.
ShowForm(component) ==
    /\ component # formOn
    /\ formOn' = component
    /\ searchQuery' = ""
    /\ lastSubmit' = Absent
    /\ UNCHANGED <<proxyVars, pageVars, renderVars>>

\* onChange of the input: setSearchQuery(e.target.value).
TypeText(text) ==
    /\ text # searchQuery
    /\ searchQuery' = text
    /\ UNCHANGED <<formOn, lastSubmit, proxyVars, pageVars, renderVars>>

\* onSubmit of the form.
SubmitForm ==
    /\ lastSubmit' = <<searchQuery, handleSubmit(formOn, searchQuery).hrefs>>
    /\ UNCHANGED <<formOn, searchQuery, proxyVars, pageVars, renderVars>>

FormNext ==
    \/ \E component \in Components : ShowForm(component)
    \/ \E text \in Texts : TypeText(text)
    \/ SubmitForm

vars == <<proxyVars, pageVars, formVars, renderVars>>

Init == ProxyInit /\ PageInit /\ FormInit /\ RenderInit

ProxySpec == Init /\ [][ProxyNext]_vars

PageSpec == Init /\ [][PageNext]_vars

FormSpec == Init /\ [][FormNext]_vars

\* The pagination control over results of two to nine pages.
PaginationInit ==
    ProxyInit /\ PageInit /\ FormInit /\ ControlInit /\ RomanIdle

PaginationSpec == PaginationInit /\ [][ControlNext]_vars

\* A call of toRomanNumeral; the loop keeps running until it returns.
RomanCallInit ==
    ProxyInit /\ PageInit /\ FormInit /\ ControlIdle /\ RomanInit

RomanSpec == RomanCallInit /\ [][RomanNext]_vars /\ WF_vars(RomanNext)

\* The network answers: the /api/summarize call in flight for a source
\* settles.
SummarizeCompletes(n) ==
    \E r \in SummarizeReqsOf(n), ok \in BOOLEAN : SummarizeSettles(r, ok)

\* The /api/search call of the current effect run gets its response.
CurrentSearchResponds ==
    \E r \in searchReqs : r.id = cleanupId /\ SearchFetchResolves(r)

\* The /api/search call of the current effect run ends: the fetch rejects or
\* the body of its response settles.
CurrentSearchCompletes ==
    \E r \in searchReqs :
        /\ r.id = cleanupId
        /\ \/ SearchFetchRejects(r)
           \/ \E payload \in ApiPayloads : SearchBodySettles(r, payload)

\* In the specification with fairness at most this many source tabs are open
\* at once.
MaxLiveTabs == 1

\* A step that respects MaxLiveTabs.
WithinLiveBound(A) == A /\ Len(sourceTabs') <= MaxLiveTabs

PageLiveNext ==
    \/ WithinLiveBound(\E param \in Params : Mount(param))
    \/ WithinLiveBound(Unmount)
    \/ WithinLiveBound(\E param \in Params : Navigate(param))
    \/ WithinLiveBound(\E r \in searchReqs : SearchFetchResolves(r))
    \/ WithinLiveBound(\E r \in searchReqs : SearchFetchRejects(r))
    \/ WithinLiveBound(\E r \in searchReqs, payload \in ApiPayloads :
                          SearchBodySettles(r, payload))
    \/ WithinLiveBound(PreviousPage)
    \/ WithinLiveBound(NextPage)
    \/ WithinLiveBound(\E k \in 1..MaxPage : SelectPage(k))
    \/ WithinLiveBound(\E text \in Texts : SubmitSearch(text))
    \/ WithinLiveBound(\E n \in SourceNumbers : OpenSourceTab(n))
    \/ WithinLiveBound(\E n \in SourceNumbers : CloseTab(n))
    \/ WithinLiveBound(\E tab \in {Overview} \cup { SourceTab(n) : n \in SourceNumbers } :
                          SelectTab(tab))
    \/ WithinLiveBound(\E r \in summarizeReqs, ok \in BOOLEAN :
                          SummarizeSettles(r, ok))

\* The page under a network in which every call eventually completes: a
\* summarize call that stays in flight settles, and the search call of the
\* current effect run gets its response and, if runs keep getting one, ends.
PageLiveSpec ==
    /\ Init /\ [][PageLiveNext]_vars
    /\ \A n \in SourceNumbers : WF_vars(SummarizeCompletes(n))
    /\ WF_vars(CurrentSearchResponds)
    /\ SF_vars(CurrentSearchCompletes)

\* The proxies and the page in one specification.  They share no state, so a
\* behaviour exercises one of them while the other stays as it starts.
WhilePageIdle(A) == PageInit /\ A

WhileProxyIdle(A) == ProxyInit /\ A

AppNext ==
    \/ WhilePageIdle(\E route \in Routes : \E body \in Bodies(route) :
                        ProxyReceive(route, body))
    \/ WhilePageIdle(\E status \in BackendStatuses, text \in BackendTexts :
                        BackendResponds(status, text))
    \/ WhilePageIdle(\E err \in TransportErrors : BackendFails(err))
    \/ WhileProxyIdle(\E param \in Params : Mount(param))
    \/ WhileProxyIdle(Unmount)
    \/ WhileProxyIdle(\E param \in Params : Navigate(param))
    \/ WhileProxyIdle(\E r \in searchReqs : SearchFetchResolves(r))
    \/ WhileProxyIdle(\E r \in searchReqs : SearchFetchRejects(r))
    \/ WhileProxyIdle(\E r \in searchReqs, payload \in ApiPayloads :
                         SearchBodySettles(r, payload))
    \/ WhileProxyIdle(PreviousPage)
    \/ WhileProxyIdle(NextPage)
    \/ WhileProxyIdle(\E k \in 1..MaxPage : SelectPage(k))
    \/ WhileProxyIdle(\E text \in Texts : SubmitSearch(text))
    \/ WhileProxyIdle(\E n \in SourceNumbers : OpenSourceTab(n))
    \/ WhileProxyIdle(\E n \in SourceNumbers : CloseTab(n))
    \/ WhileProxyIdle(\E tab \in {Overview} \cup { SourceTab(n) : n \in SourceNumbers } :
                         SelectTab(tab))
    \/ WhileProxyIdle(\E r \in summarizeReqs, ok \in BOOLEAN :
                         SummarizeSettles(r, ok))

AppSpec == Init /\ [][AppNext]_vars
(***************************************************************************)
(* Part I.  Properties of the proxy routes (checked under ProxySpec).      *)
(***************************************************************************)

\* The fields whose absence or emptiness makes the handler reject the request.
MissingField(route, body) ==
    /\ body.kind = "object"
    /\ IF route = "search" THEN body.query \in {Absent, <<"">>}
       ELSE \/ body.source_url \in {Absent, <<"">>}
            \/ body.original_query \in {Absent, <<"">>}

\* The backend's declared detail: the body is JSON with a non-empty detail.
DeclaredDetail(text) ==
    IF ParseJSON(text).parses /\ Truthy(ParseJSON(text).detail)
    THEN ParseJSON(text).detail ELSE Absent

\* C1: search proxy, backend HTTP error.  For every non-success backend
\* response with status s the proxy answers with status s, and its error is
\* the body's declared detail when there is one and otherwise the generic
\* message 'FastAPI responded with status: s'.
C1_SearchRelaysBackendError ==
    (pPc = "done" /\ pRoute = "search" /\ pOutcome.kind = "http"
        /\ ~ResponseOk(pOutcome.status))
    => /\ pResp.status = pOutcome.status
       /\ pResp.error =
            IF DeclaredDetail(pOutcome.text) # Absent
            THEN DeclaredDetail(pOutcome.text)
            ELSE <<"FastAPI responded with status: ", ToString(pOutcome.status)>>

\* C2: search proxy, missing field.  A request whose body has no query (absent
\* or empty) is answered 400 with an error message, and nothing is sent to the
\* backend.
C2_SearchMissingQuery ==
    (pRoute = "search" /\ MissingField("search", pBody))
    => /\ pPc = "done"
       /\ pResp.status = 400
       /\ pResp.error # Absent
       /\ pCalls = 0 /\ pSent = Absent /\ pOutcome = NoOutcome

C2_Witness ==
    /\ pRoute = "search" /\ pPc = "done"
    /\ pBody.kind = "object" /\ pBody.query = <<"">>
    /\ pResp.status = 400

\* C3: search proxy, backend unreachable.  When the forward attempt fails
\* because the connection is refused, the proxy answers 500 with one of its two
\* messages saying the backend cannot be reached.
C3_SearchConnectionRefused ==
    (pPc = "done" /\ pRoute = "search" /\ pOutcome.kind = "fail"
        /\ pOutcome.err.reason = "refused")
    => /\ pResp.status = 500
       /\ pResp.error \in {CannotConnectMessage, NetworkErrorMessage}

C3_Witness ==
    /\ pPc = "done" /\ pRoute = "search" /\ pOutcome.kind = "fail"
    /\ pOutcome.err.reason = "refused" /\ pOutcome.err.code = "ECONNREFUSED"
    /\ pResp.status = 500 /\ pResp.error = CannotConnectMessage

\* C4: no retry at the proxy layer.  Either proxy calls the backend at most
\* once per incoming request whatever the outcome, and not at all when the
\* request is rejected before the call.
C4_AtMostOneBackendCall ==
    /\ pCalls <= 1
    /\ (pPc = "done" /\ pOutcome.kind # "none") => pCalls = 1
    /\ MissingField(pRoute, pBody) => pCalls = 0
    /\ (pPc = "done" /\ pResp.status = 400) => (pCalls = 0 /\ pSent = Absent)

C4_Witness ==
    /\ pPc = "done" /\ pOutcome.kind = "fail" /\ pCalls = 1

\* C5: summarize proxy, missing field.  A request in which source_url or
\* original_query is absent or empty is answered 400 with an error message,
\* and nothing is sent to the backend.
C5_SummarizeMissingField ==
    (pRoute = "summarize" /\ MissingField("summarize", pBody))
    => /\ pPc = "done"
       /\ pResp.status = 400
       /\ pResp.error # Absent
       /\ pCalls = 0 /\ pSent = Absent /\ pOutcome = NoOutcome

C5_Witness ==
    /\ pRoute = "summarize" /\ pPc = "done"
    /\ pBody.kind = "object"
    /\ pBody.source_url = <<"http://a">> /\ pBody.original_query = Absent
    /\ pResp.status = 400

\* The backend outcomes C6 speaks of: a non-success status, a refused
\* connection, a generic fetch failure.
NormalizedOutcome(o) ==
    \/ o.kind = "http" /\ ~ResponseOk(o.status)
    \/ o.kind = "fail" /\ o.err.code = "ECONNREFUSED"
    \/ o.kind = "fail" /\ o.err.name = "TypeError"
          /\ IncludesFetchFailed(o.err.message)

\* C6 as claimed: for every such backend outcome the summarize proxy returns
\* the status and the error message the search proxy returns for it.
C6_SummarizeSameAsSearch ==
    (pPc = "done" /\ pRoute = "summarize" /\ NormalizedOutcome(pOutcome))
    => /\ pResp.status = Respond("search", pOutcome).status
       /\ pResp.error = Respond("search", pOutcome).error

\* C6 as amended: the summarize proxy classifies a refused connection and a
\* generic fetch failure as the search proxy does (500, same message); for a
\* non-success status s it relays s with the error 'Backend error: ' followed
\* by the raw body text, never the declared detail or the generic message.
C6_SummarizeNormalization ==
    (pPc = "done" /\ pRoute = "summarize" /\ NormalizedOutcome(pOutcome))
    => IF pOutcome.kind = "fail"
       THEN /\ pResp.status = 500
            /\ pResp.status = Respond("search", pOutcome).status
            /\ pResp.error = Respond("search", pOutcome).error
            /\ pResp.error \in {CannotConnectMessage, NetworkErrorMessage}
       ELSE /\ pResp.status = pOutcome.status
            /\ pResp.error = <<"Backend error: ", pOutcome.text>>
            /\ pResp.error # DeclaredDetail(pOutcome.text)

C6_Witness ==
    /\ pPc = "done" /\ pRoute = "summarize"
    /\ pOutcome = HttpOutcome(503, "{\"detail\":\"overloaded\"}")
    /\ pResp.status = 503

\* An accepted request: the handler got as far as its fetch() call.
Accepted == pPc \in {"fetching", "done"} /\ pCalls = 1

\* C22: the search proxy forwards an equivalent request.  For every accepted
\* request the body sent to the backend has the query of the incoming body,
\* unaltered, and max_results, page and per_page equal to the incoming values,
\* taking 20, 1 and 20 when a field is absent.
C22_SearchForwardsEquivalent ==
    /\ (pRoute = "search" /\ pBody.kind = "object" /\ pPc # "idle"
            /\ pBody.query \notin {Absent, <<"">>}) => Accepted
    /\ (pRoute = "search" /\ Accepted)
       => /\ pSent # Absent
          /\ pSent[1].query = pBody.query
          /\ pSent[1].max_results =
                IF pBody.max_results = Absent THEN 20 ELSE pBody.max_results[1]
          /\ pSent[1].page =
                IF pBody.page = Absent THEN 1 ELSE pBody.page[1]
          /\ pSent[1].per_page =
                IF pBody.per_page = Absent THEN 20 ELSE pBody.per_page[1]

C22_Witness ==
    /\ pRoute = "search" /\ pPc = "fetching"
    /\ pBody.kind = "object" /\ pBody.query = <<" ">>
    /\ pBody.max_results = <<0>> /\ pBody.page = Absent
    /\ pBody.per_page = <<10>>
    /\ pSent = <<[query |-> <<" ">>, max_results |-> 0, page |-> 1,
                  per_page |-> 10]>>

\* The error the catch block of the invocation caught, as a one-element
\* sequence; << >> when the catch block did not run.
CaughtError ==
    IF pPc # "done" THEN << >>
    ELSE IF pOutcome.kind = "fail" THEN <<pOutcome.err>>
    ELSE IF pBody.kind = "unparseable" THEN <<SyntaxErrorJSON>>
    ELSE IF pBody.kind = "null" THEN <<TypeErrorNull>>
    ELSE IF pOutcome.kind = "http" /\ ResponseOk(pOutcome.status)
            /\ ~ParseJSON(pOutcome.text).parses THEN <<SyntaxErrorJSON>>
    ELSE IF pOutcome.kind = "http" /\ ~ResponseOk(pOutcome.status)
            /\ pRoute = "search" /\ pOutcome.text = "null" THEN <<TypeErrorNull>>
    ELSE << >>

\* C23: classification of a caught error, in both proxies.  Code ECONNREFUSED
\* gives the 'Cannot connect to FastAPI backend' message whatever else the
\* error is; otherwise a TypeError whose message contains 'fetch failed' gives
\* 'Network error connecting to backend'; any other error gives the route's
\* generic message.  In all three cases the status is 500 and the response has
\* the shape that carries the debug payload.
C23_TransportClassification ==
    CaughtError # << >>
    => LET err == CaughtError[1] IN
       /\ pResp.status = 500
       /\ pResp.shape = "transport"
       /\ err.code = "ECONNREFUSED" => pResp.error = CannotConnectMessage
       /\ (err.code # "ECONNREFUSED" /\ err.name = "TypeError"
              /\ err.message = "fetch failed")
          => pResp.error = NetworkErrorMessage
       /\ (err.code # "ECONNREFUSED"
              /\ ~(err.name = "TypeError" /\ err.message = "fetch failed"))
          => pResp.error =
                IF pRoute = "search" THEN <<"Failed to fetch search results">>
                ELSE <<"Internal server error">>

C23_Witness ==
    /\ pPc = "done" /\ pRoute = "summarize" /\ pOutcome.kind = "fail"
    /\ pOutcome.err.code = "ECONNREFUSED" /\ pOutcome.err.name = "TypeError"
    /\ pOutcome.err.message = "fetch failed"
    /\ pResp.status = 500 /\ pResp.error = CannotConnectMessage

\* C28: proxy status discipline.  A proxy answers 500 only when a call to the
\* backend was attempted and failed, and every request rejected before any
\* backend call, a body that is not parseable JSON or not an object included,
\* is answered with a 400-class status.
C28_StatusDiscipline ==
    pPc = "done"
    => /\ pResp.status = 500 => pCalls = 1
       /\ pCalls = 0 => (pResp.status >= 400 /\ pResp.status <= 499)

(***************************************************************************)
(* Properties of the search results page.                                  *)
(***************************************************************************)

\* The identifiers of the /api/search calls in flight.
SearchIds == { r.id : r \in searchReqs }

\* The page is entered, or params.query changes under it.
QueryBecomesActive == mounted' /\ (~mounted \/ query' # query)

\* C7: a cache hit skips the network.  Whenever the page's active query
\* becomes one whose decoded string has an entry in searchCache (the page is
\* entered at it, or the route parameter changes to it), the step issues no
\* /api/search call and ends with results equal to the cached entry, loading
\* false and error null.
C7_CacheHitSkipsNetwork ==
    [][ (QueryBecomesActive /\ decodeURIComponent(query') \in DOMAIN searchCache)
        => /\ { r.id : r \in searchReqs' } \subseteq SearchIds
           /\ cleanupId' = 0
           /\ results' = <<searchCache[decodeURIComponent(query')]>>
           /\ loading' = FALSE
           /\ error' = Absent ]_vars

\* The route parameter "%72ust" was just made active while "rust" was cached:
\* the page shows the cached response and no call is in flight.
C7_Witness ==
    /\ lastEvent = "cacheHit"
    /\ mounted
    /\ query = "%72ust"
    /\ "rust" \in DOMAIN searchCache
    /\ results = <<searchCache["rust"]>>
    /\ ~loading
    /\ searchReqs = {}

\* The run r of fetchResults() ends in this step.
SearchSettles(r) == r \in searchReqs /\ \A r2 \in searchReqs' : r2.id # r.id

C9_NoSecondSummarizeRequest ==
    [][ \A n \in openedSources :
          SummarizeReqsOf(n)' \subseteq SummarizeReqsOf(n) ]_vars

RemoveAt(s, i) ==
    [j \in 1..(Len(s) - 1) |-> IF j < i THEN s[j] ELSE s[j + 1]]

\* A step of the mounted page after which fewer source tabs are open.
TabCloses == mounted' /\ Len(sourceTabs') < Len(sourceTabs)

\* C11: closing a source tab removes exactly that tab.  In a step that closes
\* a tab, the open tabs afterwards are the open tabs before without one
\* element, in the same order; activeTab becomes overview if the closed tab
\* was active and is unchanged otherwise; sourceSummaries, loadingSummaries
\* and the rest of the page state are unchanged.
C11_CloseTabFrame ==
    [][ TabCloses =>
          \E i \in 1..Len(sourceTabs) :
            /\ sourceTabs' = RemoveAt(sourceTabs, i)
            /\ activeTab' =
                  IF activeTab = SourceTab(sourceTabs[i].source_number)
                  THEN Overview ELSE activeTab
            /\ UNCHANGED <<sourceSummaries, loadingSummaries, summarizeReqs,
                           query, results, loading, error, currentPage,
                           searchCache, searchReqs>> ]_vars

\* Tab 1 was closed while tab 2 was the active one: tab 2 is still open and
\* active.
C11_Witness ==
    /\ lastEvent = "close"
    /\ TabNumbers = {2}
    /\ activeTab = SourceTab(2)
    /\ 1 \in openedSources

\* C12: pagination re-invokes the search call.  When the results of the
\* active query are displayed at page 1 and the user moves to page 2, the step
\* issues a /api/search call for the same query with page 2.
C12_PaginationIssuesRequest ==
    [][ (mounted /\ mounted' /\ query' = query /\ View = "success"
         /\ currentPage = 1 /\ currentPage' = 2)
        => \E r \in searchReqs' :
              /\ r.id \notin SearchIds
              /\ ~r.aborted
              /\ r.q = decodeURIComponent(query)
              /\ r.page = 2 ]_vars

\* params.query changes under the mounted page.
QueryChanges == mounted /\ mounted' /\ query' # query

\* C13: changing the query resets pagination to page 1.  In a step that
\* changes the query, whatever currentPage was, currentPage becomes 1 and
\* every /api/search call the step issues carries page 1.
C13_QueryChangeResetsPage ==
    [][ QueryChanges =>
          /\ currentPage' = 1
          /\ \A r \in searchReqs' : r.id \notin SearchIds => r.page = 1 ]_vars

(***************************************************************************)
(* Properties of the search forms.                                         *)
(***************************************************************************)

\* C14: form submit.  After a submit of a text that is not empty or
\* whitespace-only, exactly one router.push was made and its href ends with
\* encodeURIComponent of the text; after a submit of an empty or
\* whitespace-only text no router.push was made, and the handler does not
\* touch the page (no setCurrentPage, hence no request).
C14_FormSubmit ==
    lastSubmit # Absent =>
        LET text == lastSubmit[1]
            hrefs == lastSubmit[2]
        IN  IF text \notin {"", " "}
            THEN /\ Len(hrefs) = 1
                 /\ hrefs[1][2] = encodeURIComponent(text)
            ELSE /\ hrefs = << >>
                 /\ ~handleSubmit(formOn, text).setsPage

\* The search page's form was submitted with " rust" and pushed
\* /search/%20rust.
C14_Witness ==
    /\ formOn = "SearchPage"
    /\ lastSubmit = <<" rust", << <<"/search/", "%20rust">> >> >>

\* C15: no /api/search call of the page carries an empty or whitespace-only
\* query.
C15_NoBlankQueryRequest ==
    \A r \in searchReqs : ~r.aborted => r.q \notin {"", " "}

\* The summarize call for source n has failed: null is stored for n and its
\* loading flag is cleared.
SummaryFailed(n) ==
    /\ n \in DOMAIN sourceSummaries /\ sourceSummaries[n] = Absent
    /\ n \in DOMAIN loadingSummaries /\ ~loadingSummaries[n]

\* C16: a failed summary is terminal.  Once the summarize call for a source
\* has failed, no later step of the page issues another /api/summarize call
\* for that source.
C16_FailedSummaryTerminal ==
    [][ \A n \in SourceNumbers :
          (SummaryFailed(n) /\ mounted') => SummarizeReqsOf(n)' = {} ]_vars

(***************************************************************************)
(* Properties of the page under a network that answers.                    *)
(***************************************************************************)

\* The loading flag of source n is true.
SummaryLoading(n) == n \in DOMAIN loadingSummaries /\ loadingSummaries[n]

\* A step of the mounted page that opens a tab for source n.
TabOpens(n) == mounted' /\ n \notin TabNumbers /\ n \in TabNumbers'

OpenStep(n) ==
    /\ sourceTabs' = Append(sourceTabs, sourceTabs'[Len(sourceTabs')])
    /\ sourceTabs'[Len(sourceTabs')].source_number = n
    /\ activeTab' = SourceTab(n)
    /\ IF (n \in DOMAIN sourceSummaries /\ sourceSummaries[n] # Absent)
          \/ SummaryLoading(n)
       THEN UNCHANGED <<summarizeReqs, loadingSummaries>>
       ELSE /\ SummaryLoading(n)'
            /\ Cardinality(SummarizeReqsOf(n)' \ SummarizeReqsOf(n)) = 1
            /\ SummarizeReqsOf(n) = {}

CurrentSearchEnds(r) == ~r.aborted /\ r.id = cleanupId /\ SearchSettles(r)

\* C18: loading leads to success or error.  A step that makes an uncached
\* query the active one leaves the page loading with a call in flight for it;
\* the step in which the current call ends leaves loading false and either
\* results equal to its response with error null, or an error message; and a
\* loading page eventually shows results or an error (or is left).
C18_LoadingLeadsToOutcome ==
    /\ [][ /\ (QueryBecomesActive
               /\ decodeURIComponent(query') \notin DOMAIN searchCache)
              => /\ loading'
                 /\ \E r \in searchReqs' :
                       /\ r.id = cleanupId' /\ ~r.aborted
                       /\ r.q = decodeURIComponent(query')
           /\ \A r \in searchReqs :
                CurrentSearchEnds(r) =>
                  /\ ~loading'
                  /\ \/ /\ results' = <<SearchResponse(r.q, r.page)>>
                        /\ error' = Absent
                        /\ View' = "success"
                     \/ /\ error' \notin {Absent, <<"">>}
                        /\ View' = "error" ]_vars
    /\ (mounted /\ loading) ~> (~mounted \/ View \in {"success", "error"})

\* The call for an uncached query has failed: the page shows the error.
C18_Witness ==
    /\ mounted
    /\ View = "error"
    /\ decodeURIComponent(query) \notin DOMAIN searchCache
    /\ searchReqs = {}

\* C19: the session cache is mutated only on successful fetch.  Every entry
\* of searchCache is a response for its key; a step that changes searchCache
\* is the end of a /api/search call that was not superseded, succeeded (its
\* response becomes results and error stays null) and whose query is the key
\* written; every other entry is kept as it was.
C19_CacheWrittenOnSuccessOnly ==
    /\ [](\A q \in DOMAIN searchCache : searchCache[q].query = q)
    /\ [][ searchCache' # searchCache =>
             \E r \in searchReqs :
               /\ CurrentSearchEnds(r)
               /\ mounted
               /\ DOMAIN searchCache' = DOMAIN searchCache \cup {r.q}
               /\ searchCache'[r.q] = SearchResponse(r.q, r.page)
               /\ \A k \in DOMAIN searchCache \ {r.q} :
                     searchCache'[k] = searchCache[k]
               /\ results' = <<searchCache'[r.q]>>
               /\ error' = Absent ]_vars

\* "rust" is cached, and a failed call for " " has left an error and no
\* entry.
C19_Witness ==
    /\ mounted
    /\ DOMAIN searchCache = {"rust"}
    /\ decodeURIComponent(query) = " "
    /\ error # Absent
    /\ ~loading

(***************************************************************************)
(* Properties of the proxies and the page together.                        *)
(***************************************************************************)

\* Something failed while the proxy handled the request: the request body was
\* unparseable or null, the backend call was rejected, the backend answered
\* with an error status, or its body was unparseable.
ProxyFailed ==
    \/ pBody.kind \in {"unparseable", "null"}
    \/ pOutcome.kind = "fail"
    \/ /\ pOutcome.kind = "http"
       /\ \/ ~ResponseOk(pOutcome.status)
          \/ ~ParseJSON(pOutcome.text).parses

\* C20: every failure is caught and turned into a message.  A proxy
\* invocation that has ended has returned a response, and when something
\* failed the response has an error status and a non-empty error field; on
\* the page, the end of the current search call without a result leaves the
\* error view with a non-empty message, and the end of a summarize call
\* without a summary leaves a null entry and a cleared loading flag.
C20_EveryFailureCaught ==
    /\ [](pPc = "done" =>
            /\ pResp.shape # "none"
            /\ ProxyFailed =>
                  /\ pResp.status >= 400
                  /\ pResp.error # Absent /\ pResp.error[1] # "")
    /\ [][ /\ \A r \in searchReqs :
                (CurrentSearchEnds(r) /\ searchCache' = searchCache) =>
                  /\ error' \notin {Absent, <<"">>}
                  /\ View' = "error"
           /\ \A n \in SourceNumbers :
                (/\ mounted'
                 /\ SummarizeReqsOf(n) # {} /\ SummarizeReqsOf(n)' = {}
                 /\ ~(n \in DOMAIN sourceSummaries'
                      /\ sourceSummaries'[n] # Absent)) =>
                  /\ n \in DOMAIN sourceSummaries'
                  /\ sourceSummaries'[n] = Absent
                  /\ ~SummaryLoading(n)' ]_vars

\* The summarize proxy got an ok response whose body is not JSON and answered
\* 500 with its generic message.
C20_Witness ==
    /\ pPc = "done"
    /\ pRoute = "summarize"
    /\ pOutcome = HttpOutcome(200, "<html>")
    /\ pResp.status = 500
    /\ pResp.error = <<"Internal server error">>

\* The /api/search calls a step issues, by identifier, and the /api/summarize
\* calls it issues.
IssuedSearchIds == { r.id : r \in searchReqs' } \ SearchIds
IssuedSummarize == summarizeReqs' \ summarizeReqs

\* C21: one network call per user action.  No step of the page (entering a
\* query, changing to a query, a pagination button, View Summary) issues more
\* than one network call; in particular a query change does not issue two
\* /api/search calls.
C21_OneCallPerAction ==
    [][ Cardinality(IssuedSearchIds) + Cardinality(IssuedSummarize) <= 1 ]_vars

\* C24: the active tab is an open tab.  In every state activeTab is overview
\* or the tab of a source that is among the open tabs, and no source number
\* occurs twice among the open tabs; a step that opens a tab appends it after
\* the tabs already open, and a step that closes one keeps the order of the
\* others.
C24_ActiveTabIsOpen ==
    /\ [](/\ activeTab \in {Overview} \cup { SourceTab(n) : n \in TabNumbers }
          /\ \A i, j \in 1..Len(sourceTabs) :
                sourceTabs[i].source_number = sourceTabs[j].source_number
                => i = j)
    /\ [][ /\ (mounted' /\ Len(sourceTabs') > Len(sourceTabs))
              => /\ Len(sourceTabs') = Len(sourceTabs) + 1
                 /\ SubSeq(sourceTabs', 1, Len(sourceTabs)) = sourceTabs
           /\ TabCloses
              => \E i \in 1..Len(sourceTabs) :
                    sourceTabs' = RemoveAt(sourceTabs, i) ]_vars

\* Source 1 was opened, closed and opened again after source 2: its tab is
\* the second of two and the active one.
C24_Witness ==
    /\ lastEvent = "reopenClosed"
    /\ Len(sourceTabs) = 2
    /\ sourceTabs[1].source_number = 2
    /\ sourceTabs[2].source_number = 1
    /\ activeTab = SourceTab(1)

\* The source numbers with a stored (non-null) summary, and those whose
\* loading flag is set.
Summarized == { n \in DOMAIN sourceSummaries : sourceSummaries[n] # Absent }
FlaggedLoading == { n \in DOMAIN loadingSummaries : loadingSummaries[n] }

\* C25: summaries belong to the current query.  In every state a summary
\* stored under source number n was requested with original_query equal to the
\* active query and source_url equal to the link of source n in the displayed
\* results; and a step that changes the active query leaves no open tab, no
\* stored summary and no loading flag behind.
C25_SummariesOfCurrentQuery ==
    /\ [](mounted =>
            \A n \in Summarized :
                /\ sourceSummaries[n][1].original_query = decodeURIComponent(query)
                /\ results # Absent =>
                      sourceSummaries[n][1].source_url = Source(results[1], n).link)
    /\ [][ (QueryChanges /\ decodeURIComponent(query') # decodeURIComponent(query))
           => /\ sourceTabs' = << >>
              /\ Summarized' = {}
              /\ FlaggedLoading' = {} ]_vars

\* C26: page bookkeeping agrees with what is shown.  Whenever results are
\* displayed, currentPage is at least 1 and at most the number of pages of the
\* displayed results, and equals their current_page.
C26_PageMatchesResults ==
    View = "success"
    => /\ 1 <= currentPage
       /\ currentPage <= TotalPages(results[1])
       /\ currentPage = results[1].current_page

\* C27: cache entries are write-once.  The key of an entry is the decoded
\* query of the response stored under it; once a query has an entry, no step
\* removes or changes the entry, and no step issues a /api/search call for
\* that query (every call a step issues is for the query that is active after
\* the step, and that query then has no entry).
C27_CacheWriteOnce ==
    /\ [](\A q \in DOMAIN searchCache :
            /\ searchCache[q].query = q
            /\ q \in { decodeURIComponent(param) : param \in Params })
    /\ [][ /\ \A q \in DOMAIN searchCache :
                /\ q \in DOMAIN searchCache'
                /\ searchCache'[q] = searchCache[q]
           /\ IssuedSearchIds # {}
              => /\ decodeURIComponent(query') \notin DOMAIN searchCache
                 /\ \A r \in searchReqs' :
                       (r.id \in IssuedSearchIds /\ ~r.aborted)
                       => r.q = decodeURIComponent(query') ]_vars

\* Both queries have an entry, and the page was moved to page 2 of 'rust'
\* without a call: the entry stored for page 1 is what is displayed.
C27_Witness ==
    /\ mounted
    /\ DOMAIN searchCache = {"rust", " "}
    /\ decodeURIComponent(query) = "rust"
    /\ currentPage = 2
    /\ searchReqs = {}
    /\ results = <<searchCache["rust"]>>
    /\ searchCache["rust"].current_page = 1

(***************************************************************************)
(* Properties of the pagination control (checked under PaginationSpec) and *)
(* of toRomanNumeral (checked under RomanSpec).                            *)
(***************************************************************************)

\* C29: the page-number window.  For results of T >= 2 pages and a current
\* page c in 1..T, the rendered control has exactly min(5, T) page-number
\* buttons, their numbers are consecutive (hence distinct), all within 1..T,
\* and c is one of them; Previous is disabled exactly when c <= 1 or a search
\* is loading.
C29_PageNumberWindow ==
    LET T == (ctlTotal + 19) \div 20
        c == ctlPage
    IN  (ctlButtons # << >> /\ T >= 2 /\ 1 <= c /\ c <= T)
        => /\ Len(ctlButtons) = IF T < 5 THEN T ELSE 5
           /\ \A i \in 1..(Len(ctlButtons) - 1) :
                 ctlButtons[i + 1] = ctlButtons[i] + 1
           /\ \A i \in 1..Len(ctlButtons) :
                 1 <= ctlButtons[i] /\ ctlButtons[i] <= T
           /\ \E i \in 1..Len(ctlButtons) : ctlButtons[i] = c
           /\ ctlPrevDisabled <=> (c <= 1 \/ ctlLoading)

\* The last of nine pages was reached with the buttons: the window is 5..9
\* and Previous is enabled.
C29_Witness ==
    /\ ctlTotal = 180
    /\ ctlPage = 9
    /\ ctlButtons = <<5, 6, 7, 8, 9>>
    /\ ~ctlLoading
    /\ ~ctlPrevDisabled

\* The numerals of a decimal digit d at the place whose one, five and ten are
\* written one, five and ten.
RomanDigit(d, one, five, ten) ==
    CASE d = 0 -> << >>
      [] d = 1 -> <<one>>
      [] d = 2 -> <<one, one>>
      [] d = 3 -> <<one, one, one>>
      [] d = 4 -> <<one, five>>
      [] d = 5 -> <<five>>
      [] d = 6 -> <<five, one>>
      [] d = 7 -> <<five, one, one>>
      [] d = 8 -> <<five, one, one, one>>
      [] d = 9 -> <<one, ten>>

\* The standard subtractive numeral of n in 1..3999: thousands, hundreds,
\* tens and units, each written by RomanDigit.
StandardNumeral(n) ==
    [i \in 1..(n \div 1000) |-> "M"]
    \o RomanDigit((n \div 100) % 10, "C", "D", "M")
    \o RomanDigit((n \div 10) % 10, "X", "L", "C")
    \o RomanDigit(n % 10, "I", "V", "X")

\* The value of a numeral character.
RomanCharValue(ch) ==
    CASE ch = "I" -> 1 [] ch = "V" -> 5 [] ch = "X" -> 10 [] ch = "L" -> 50
      [] ch = "C" -> 100 [] ch = "D" -> 500 [] ch = "M" -> 1000

\* A numeral read back: a character counts negative when a larger one
\* follows it.
RECURSIVE RomanReadBack(_)
RomanReadBack(s) ==
    IF s = << >> THEN 0
    ELSE IF Len(s) >= 2 /\ RomanCharValue(s[1]) < RomanCharValue(s[2])
         THEN RomanReadBack(Tail(s)) - RomanCharValue(s[1])
         ELSE RomanReadBack(Tail(s)) + RomanCharValue(s[1])

\* C30: toRomanNumeral.  Every call returns.  For n in 1..3999 the result is
\* the standard subtractive numeral of n and reads back as n (so distinct n
\* give distinct results); for n <= 0 the result is the empty string.
C30_ToRomanNumeral ==
    /\ <>(romPc = "done")
    /\ [](romPc = "done"
            => /\ (1 <= romInput /\ romInput <= 3999)
                  => /\ romResult = StandardNumeral(romInput)
                     /\ RomanReadBack(romResult) = romInput
               /\ romInput <= 0 => romResult = << >>)

\* toRomanNumeral(3994) returned MMMCMXCIV.
C30_Witness ==
    /\ romPc = "done"
    /\ romInput = 3994
    /\ romResult = <<"M", "M", "M", "C", "M", "X", "C", "I", "V">>
====
